---- MODULE Spec2Model ----
(***************************************************************************)
(* Concurrent download scheduling of telegram-music-downloader:            *)
(* DownloadQueue (download_queue.py), DownloadWorker / WorkerPool          *)
(* (download_worker.py) and DownloadCoordinator (download_coordinator.py). *)
(*                                                                         *)
(* The program runs on one asyncio event loop: code between two awaits     *)
(* that really suspend is one atomic step.  The specifications are:        *)
(*   Spec         the coordinator, its worker pool and one sequential      *)
(*                caller of the coordinator (as main.py is);               *)
(*   SpecQueue    the DownloadQueue alone, called by concurrent coroutines *)
(*                that each acknowledge a dequeued task once, as the       *)
(*                worker does;                                             *)
(*   SpecLimiter  the RateLimiter alone, called by concurrent coroutines   *)
(*                while time passes (SpecLimiterFair: with the event loop  *)
(*                running whatever is ready);                              *)
(*   SpecPut      put called by concurrent coroutines on a full queue;     *)
(*   SpecOrder    put and get on a queue of capacity MaxHeap;              *)
(*   SpecProgress get_progress_info as a function of what it reads;        *)
(*   SpecRuns     main.py run again and again over one channel, with the   *)
(*                channel's MessageTracker;                                *)
(*   SpecMonitor  Spec with the DownloadMonitor and get_session_summary.   *)
(***************************************************************************)
EXTENDS Integers, Sequences, FiniteSets, TLC

VARIABLES
    queue,      \* the DownloadQueue object
    putters,    \* put calls suspended inside asyncio.Queue.put (queue full)
    wk,         \* the DownloadWorker objects and the position of their loops
    coord,      \* the DownloadCoordinator object
    client,     \* position of the coordinator's caller
    last,       \* the last call made and what it returned
    dl,         \* history, per identity: download invocations, failed
                \* outcomes, whether add_download_task accepted it since
                \* the coordinator was last started, and whether a worker
                \* held it when stop was last signalled, and how many
                \* downloads of it ended with outcome success, and how
                \* many permits the rate limiter granted to workers holding it
    limiter,    \* the RateLimiter object, its lock and the callers of acquire
    progress,   \* a call of get_progress_info: what it read and what it reports
    monitor,    \* the DownloadMonitor object and its polling task
    run         \* the runs of the program over one channel, and what the
                \* channel's MessageTracker has persisted

vars == <<queue, putters, wk, coord, client, last, dl, limiter, progress, run, monitor>>

---------------------------------------------------------------------------
(* Bounds of the model *)

\* capacity the queue is constructed with
max_size == 2
\* number of worker loops (concurrent_downloads)
num_workers == 2
\* puts are no longer issued once total_added, with the suspended puts,
\* has reached this
MaxAdded == 3
\* RateLimiter(burst_size=...)
burst_size == 2
\* clock ticks in 1 / requests_per_second seconds: the limiter refills one
\* token every TicksPerToken ticks
TicksPerToken == 2
\* calls of put suspended at the same time under SpecPut
MaxPutters == 2
\* capacity of the queue and number of puts under SpecOrder
MaxHeap == 4
MaxOrdered == 4
\* get_progress_info: the largest total_added and the longest elapsed time
\* (seconds) it is called with
MaxTasks == 10
MaxElapsed == 3
\* messages of the channel the program is run over
MaxMessages == 3

(* Program constants *)

\* bytes per MB, the divisor of the priority
MB == 1048576
\* DownloadTask.max_attempts default
max_attempts_default == 3
\* priority demotion of a retried task
retry_offset == 1000

Workers == 1..num_workers

\* The payloads offered for download: distinct (channel_id, message_id),
\* sizes of 1.5 MB, 0.5 MB and 2.5 MB.  filename tells whether the dict has
\* the key 'filename'.
MediaInfos ==
    { [channel_id |-> 1, message_id |-> 1, file_size |-> 1572864, filename |-> TRUE],
      [channel_id |-> 1, message_id |-> 2, file_size |-> 524288, filename |-> TRUE],
      [channel_id |-> 2, message_id |-> 1, file_size |-> 2621440, filename |-> TRUE] }

\* A payload without the key 'filename', which add_download_task does not
\* refuse: every media_info['filename'] raises KeyError.
Unnamed ==
    { [channel_id |-> 2, message_id |-> 2, file_size |-> 524288, filename |-> FALSE] }

\* what the coordinator's caller submits: the payloads of one channel and the
\* one without a name
Payloads == { mi \in MediaInfos : mi.channel_id = 1 } \cup Unnamed

\* max_attempts of the tasks handed to DownloadQueue.put directly
AttemptBounds == {1, max_attempts_default}

NoInfo == [channel_id |-> 0, message_id |-> 0, file_size |-> 0, filename |-> FALSE]
NoTask == [media_info |-> NoInfo, priority |-> 0, attempts |-> 0, max_attempts |-> 0]
NoId == <<0, 0>>

\* what one invocation of the download operation ends with; a thrown fault
\* is turned into "failed" by _download_file
Outcomes == {"success", "skipped", "failed"}

---------------------------------------------------------------------------
(* DownloadTask *)

\* DownloadTask(media_info=..., max_attempts=m)
DownloadTask(mi, m) ==
    [media_info |-> mi, priority |-> 0, attempts |-> 0, max_attempts |-> m]

\* a comparison the wrong way round
lt_reversed(a, b) == a.priority > b.priority

\* DownloadTask.__lt__
lt(a, b) == a.priority < b.priority

\* f"{channel_id}_{message_id}": the two integers joined by "_" determine the
\* pair and are determined by it, so the identity is kept as the pair.
generate_task_id(mi) == <<mi.channel_id, mi.message_id>>

TaskIds == { generate_task_id(mi) : mi \in MediaInfos \cup Unnamed }

---------------------------------------------------------------------------
(* The heap of asyncio.PriorityQueue (heapq on a list), positions from 0 *)

RECURSIVE siftdown_loop(_, _, _, _)
siftdown_loop(heap, newitem, startpos, pos) ==
    IF pos > startpos
    THEN LET parentpos == (pos - 1) \div 2
             parent == heap[parentpos + 1]
         IN  IF lt(newitem, parent)
             THEN siftdown_loop([heap EXCEPT ![pos + 1] = parent],
                                newitem, startpos, parentpos)
             ELSE [heap EXCEPT ![pos + 1] = newitem]
    ELSE [heap EXCEPT ![pos + 1] = newitem]

siftdown(heap, startpos, pos) == siftdown_loop(heap, heap[pos + 1], startpos, pos)

RECURSIVE siftup_loop(_, _, _)
siftup_loop(heap, pos, endpos) ==
    LET childpos == 2 * pos + 1 IN
    IF childpos < endpos
    THEN LET rightpos == childpos + 1
             c == IF rightpos < endpos /\ ~lt(heap[childpos + 1], heap[rightpos + 1])
                  THEN rightpos ELSE childpos
         IN  siftup_loop([heap EXCEPT ![pos + 1] = heap[c + 1]], c, endpos)
    ELSE [heap |-> heap, pos |-> pos]

siftup(heap, pos) ==
    LET newitem == heap[pos + 1]
        r == siftup_loop(heap, pos, Len(heap))
    IN  siftdown([r.heap EXCEPT ![r.pos + 1] = newitem], pos, r.pos)

heappush(heap, item) == siftdown(Append(heap, item), 0, Len(heap))

\* heappop of a non-empty heap: the item returned and the heap left
heappop(heap) ==
    LET lastelt == heap[Len(heap)]
        rest == SubSeq(heap, 1, Len(heap) - 1)
    IN  IF rest # <<>>
        THEN [item |-> rest[1], heap |-> siftup([rest EXCEPT ![1] = lastelt], 0)]
        ELSE [item |-> lastelt, heap |-> <<>>]

---------------------------------------------------------------------------
(* DownloadQueue: each operation as a function of the queue object *)

\* DownloadQueue.__init__(max_size)
NewQueue(size) ==
    [max_size |-> size, heap |-> <<>>, unfinished |-> 0,
     pending_tasks |-> {}, completed_tasks |-> {}, failed_tasks |-> {},
     total_added |-> 0, total_completed |-> 0, total_failed |-> 0,
     current_size |-> 0]

EmptyQueue == NewQueue(max_size)

\* asyncio.Queue.full() for maxsize > 0
full(q) == Len(q.heap) >= q.max_size

\* a duplicate check that forgets the completed set
put_rejects_pending_only(q, task_id) == task_id \in q.pending_tasks

\* put: the duplicate check
put_rejects(q, task_id) ==
    task_id \in q.pending_tasks \/ task_id \in q.completed_tasks

\* put: task.priority = int(file_size / (1024 * 1024))
put_priority(task) ==
    [task EXCEPT !.priority = task.media_info.file_size \div MB]

\* put: what follows `await self._queue.put(task)` once the item is in
put_insert(q, task) ==
    LET h == heappush(q.heap, task) IN
    [q EXCEPT !.heap = h,
              !.unfinished = @ + 1,
              !.pending_tasks = @ \cup {generate_task_id(task.media_info)},
              !.total_added = @ + 1,
              !.current_size = Len(h)]

\* put: ret is "false" (rejected), "true" (inserted) or "suspended" (the
\* caller waits inside asyncio.Queue.put for a free slot; nothing recorded yet)
put(q, task) ==
    LET t == put_priority(task) IN
    IF put_rejects(q, generate_task_id(task.media_info))
    THEN [q |-> q, ret |-> "false", task |-> task]
    ELSE IF full(q)
         THEN [q |-> q, ret |-> "suspended", task |-> t]
         ELSE [q |-> put_insert(q, t), ret |-> "true", task |-> t]

\* get of a non-empty queue (on an empty one the caller waits)
get(q) ==
    LET r == heappop(q.heap) IN
    [q |-> [q EXCEPT !.heap = r.heap, !.current_size = Len(r.heap)],
     task |-> r.item]

\* asyncio.Queue.task_done raises ValueError when nothing is unfinished
task_done_raises(q) == q.unfinished <= 0

\* task_done
task_done(q, task, success) ==
    LET task_id == generate_task_id(task.media_info)
        q1 == [q EXCEPT !.pending_tasks = @ \ {task_id}]
        q2 == IF success
              THEN [q1 EXCEPT !.completed_tasks = @ \cup {task_id},
                              !.total_completed = @ + 1]
              ELSE [q1 EXCEPT !.failed_tasks = @ \cup {task_id},
                              !.total_failed = @ + 1]
    IN  IF task_done_raises(q2) THEN q2
        ELSE [q2 EXCEPT !.unfinished = @ - 1]

\* a retry that moves the task ahead
demote_promotes(task) == [task EXCEPT !.priority = @ - retry_offset]

\* retry_task: task.priority += 1000
demote(task) == [task EXCEPT !.priority = @ + retry_offset]

\* a retry that allows one attempt too many
retry_task_off_by_one(q, task) ==
    LET t1 == [task EXCEPT !.attempts = @ + 1] IN
    IF t1.attempts > t1.max_attempts
    THEN [q |-> task_done(q, t1, FALSE), ret |-> "false", task |-> t1]
    ELSE put(q, [t1 EXCEPT !.priority = @ + retry_offset])

\* retry_task
retry_task(q, task) ==
    LET t1 == [task EXCEPT !.attempts = @ + 1] IN
    IF t1.attempts >= t1.max_attempts
    THEN [q |-> task_done(q, t1, FALSE), ret |-> "false", task |-> t1]
    ELSE put(q, demote(t1))

\* a clear that also forgets what completed
clear_forgets_history(q) ==
    [q EXCEPT !.heap = <<>>,
              !.unfinished = IF @ >= Len(q.heap) THEN @ - Len(q.heap) ELSE 0,
              !.pending_tasks = {},
              !.completed_tasks = {},
              !.current_size = 0]

\* clear: every enqueued entry is taken and acknowledged, pending is emptied
clear(q) ==
    [q EXCEPT !.heap = <<>>,
              !.unfinished = IF @ >= Len(q.heap) THEN @ - Len(q.heap) ELSE 0,
              !.pending_tasks = {},
              !.current_size = 0]

\* a wait that ends as soon as nothing is enqueued
join_done_when_empty(q) == q.heap = <<>>

\* wait_empty returns: asyncio.Queue.join is over
join_done(q) == q.unfinished = 0

---------------------------------------------------------------------------
(* RateLimiter.  Time is counted in clock ticks and tokens in units of       *)
(* 1 / TicksPerToken of a token, so that time_passed * requests_per_second   *)
(* is time_passed units and one token is TicksPerToken units.  The clock is  *)
(* kept relative to now: elapsed is now - last_update, sleep_left[c] is the  *)
(* time until the sleep of caller c is over, grants holds the age of each    *)
(* of the latest permits.                                                    *)

Min(a, b) == IF a <= b THEN a ELSE b
Max(a, b) == IF a >= b THEN a ELSE b

\* the latest permits remembered, and the age at which one is forgotten
LogLen == burst_size + 1
Horizon == LogLen * TicksPerToken
\* the time_passed from which the refill fills the bucket whatever it held
RefillCap == burst_size * TicksPerToken

\* RateLimiter.__init__
NewLimiter ==
    [tokens |-> burst_size * TicksPerToken, elapsed |-> 0,
     locked |-> FALSE, waiters |-> <<>>,
     pc |-> [c \in Workers |-> "idle"],
     sleep_left |-> [c \in Workers |-> 0],
     grants |-> <<>>, burst |-> 0, who |-> 0]

\* a refill without the cap
refill_unbounded(tokens, time_passed) == tokens + time_passed

\* acquire: min(burst_size, tokens + time_passed * requests_per_second)
refill(tokens, time_passed) ==
    Min(burst_size * TicksPerToken, tokens + time_passed)

\* acquire: self.tokens >= 1
has_token(tokens) == tokens >= TicksPerToken

\* half the wait
wait_time_halved(tokens) == (TicksPerToken - tokens) \div 2

\* acquire: wait_time = (1 - tokens) / requests_per_second, in ticks
wait_time(tokens) == TicksPerToken - tokens

\* a lock that lets every caller in
lock_free_always(l) == TRUE

\* asyncio.Lock.acquire does not wait: unlocked and nobody queued
lock_free(l) == ~l.locked /\ l.waiters = <<>>

\* a release that leaves the lock taken
release_stays_locked(l) == l

\* asyncio.Lock.release; the first queued caller is the one woken
release(l) == [l EXCEPT !.locked = FALSE]

\* the permit is granted to c now, acquire returns
granted(l, c) ==
    LET g == Append(l.grants, 0) IN
    [l EXCEPT !.pc[c] = "idle",
              !.grants = IF Len(g) > LogLen THEN Tail(g) ELSE g]

\* acquire from `async with self._lock` being entered up to the return or
\* the sleep
acquire_enter(l, c) ==
    LET t == refill(l.tokens, l.elapsed)
        l1 == [l EXCEPT !.tokens = t, !.elapsed = 0, !.locked = TRUE, !.who = c]
    IN  IF has_token(t)
        THEN release(granted([l1 EXCEPT !.tokens = t - TicksPerToken], c))
        ELSE [l1 EXCEPT !.pc[c] = "sleep", !.sleep_left[c] = wait_time(t)]

\* a wake-up that does not refresh last_update
acquire_wake_keeps_last_update(l, c) ==
    release(granted([l EXCEPT !.tokens = 0, !.who = c], c))

\* acquire after asyncio.sleep: tokens = 0, last_update = now, lock released
acquire_wake(l, c) ==
    release(granted([l EXCEPT !.tokens = 0, !.elapsed = 0, !.who = c], c))

\* the clock advances by one tick
tick(l) ==
    LET aged == [i \in DOMAIN l.grants |-> l.grants[i] + 1]
    IN  [l EXCEPT !.elapsed = Min(@ + 1, RefillCap),
                  !.sleep_left = [c \in Workers |-> Max(@[c] - 1, 0)],
                  !.grants = IF aged # <<>> /\ aged[1] >= Horizon
                             THEN Tail(aged) ELSE aged,
                  !.burst = IF @ = burst_size THEN @ ELSE 0]

---------------------------------------------------------------------------
(* DownloadCoordinator.get_progress_info *)

\* round(n / d * 100, 1) as a number of tenths of a percent: the nearest
\* tenth, the even one on a tie
round_tenths(n, d) ==
    LET q == (n * 1000) \div d
        r == (n * 1000) % d
    IN  IF 2 * r > d \/ (2 * r = d /\ q % 2 = 1) THEN q + 1 ELSE q

\* a percentage that counts the completed tasks only
progress_percentage_completed_only(total_tasks, completed_tasks, failed_tasks) ==
    IF total_tasks > 0 THEN round_tenths(completed_tasks, total_tasks) ELSE 0

\* get_progress_info: round(progress_percentage, 1), in tenths of a percent
progress_percentage(total_tasks, completed_tasks, failed_tasks) ==
    IF total_tasks > 0
    THEN round_tenths(completed_tasks + failed_tasks, total_tasks)
    ELSE 0

\* the return value None
None == [known |-> FALSE, seconds |-> 0]

\* _estimate_time_remaining; int() of a positive value truncates
estimate_time_remaining(pending_tasks, completed_tasks, elapsed_time) ==
    IF completed_tasks = 0 \/ elapsed_time = 0 \/ pending_tasks = 0
    THEN None
    ELSE [known |-> TRUE,
          seconds |-> (pending_tasks * elapsed_time) \div completed_tasks]

\* get_progress_info has not been called
NoProgress ==
    [called |-> FALSE, total_tasks |-> 0, completed_tasks |-> 0, failed_tasks |-> 0,
     pending_tasks |-> 0, elapsed_time |-> 0,
     progress_percentage |-> 0, estimated_time_remaining |-> None]

\* get_progress_info on a running coordinator, from what get_stats returns
\* and the time since start
get_progress_info(total_tasks, completed_tasks, failed_tasks, pending_tasks, elapsed_time) ==
    [called |-> TRUE, total_tasks |-> total_tasks,
     completed_tasks |-> completed_tasks, failed_tasks |-> failed_tasks,
     pending_tasks |-> pending_tasks, elapsed_time |-> elapsed_time,
     progress_percentage |->
         progress_percentage(total_tasks, completed_tasks, failed_tasks),
     estimated_time_remaining |->
         estimate_time_remaining(pending_tasks, completed_tasks, elapsed_time)]

---------------------------------------------------------------------------
(* The runs of main.py over one channel and the channel's MessageTracker *)

Messages == 1..MaxMessages

\* the tracker file does not exist yet (last_processed_id None is 0)
FirstRun ==
    [phase |-> "ended", cursor |-> 0, last_processed_id |-> 0,
     total_messages_processed |-> 0,
     status |-> [m \in Messages |-> "undiscovered"]]

\* parse_messages(entity, last_processed_id): the first message yielded is
\* the one after last_processed_id, then oldest to newest
parse_messages(last_processed_id) == last_processed_id + 1

\* MessageTracker.mark_message_processed, saved to the tracker file
mark_message_processed(r, message_id) ==
    [r EXCEPT !.total_messages_processed = @ + 1,
              !.last_processed_id = IF @ = 0 \/ message_id > @ THEN message_id ELSE @]

---------------------------------------------------------------------------
(* Views used by the properties *)

Enqueued(q) == { generate_task_id(q.heap[i].media_info) : i \in DOMAIN q.heap }
InFlight == { generate_task_id(wk[w].current_task.media_info) :
                 w \in { v \in Workers : wk[v].current_task # NoTask } }

Call(op, id, ret, task) == [op |-> op, id |-> id, ret |-> ret, task |-> task]

NoWorker ==
    [pc |-> "none", is_running |-> FALSE, current_task |-> NoTask,
     tasks_completed |-> 0, tasks_failed |-> 0, bytes_downloaded |-> 0]

\* the sequence s without its i-th element
Remove(s, i) == SubSeq(s, 1, i - 1) \o SubSeq(s, i + 1, Len(s))

\* worker w (or coroutine w under SpecQueue) is suspended inside a put
Suspended(w) == \E i \in DOMAIN putters : putters[i].caller = w

\* DownloadMonitor.__init__; nothing was reported yet
NewMonitor == [is_monitoring |-> FALSE, task |-> "none"]

RECURSIVE SumBytes(_)
SumBytes(S) ==
    IF S = {} THEN 0
    ELSE LET w == CHOOSE v \in S : TRUE
         IN  wk[w].bytes_downloaded + SumBytes(S \ {w})

InitWith(q) ==
    /\ queue = q
    /\ putters = <<>>
    /\ wk = [w \in Workers |-> NoWorker]
    /\ coord = [is_running |-> FALSE, files_queued |-> 0, files_completed |-> 0,
                files_failed |-> 0, total_bytes_downloaded |-> 0]
    /\ client = [pc |-> "idle"]
    /\ last = Call("init", NoId, "none", NoTask)
    /\ dl = [i \in TaskIds |-> [calls |-> 0, failures |-> 0, session |-> FALSE,
                                 stopped |-> FALSE, downloaded |-> 0,
                                 permits |-> 0]]
    /\ limiter = NewLimiter
    /\ progress = NoProgress
    /\ run = FirstRun
    /\ monitor = NewMonitor

Init == InitWith(EmptyQueue)

---------------------------------------------------------------------------
(* Resumption of a suspended put, in both specifications *)

\* asyncio.Queue.put resumes once a slot is free; put then records the task.
\* caller 0 is the coordinator's caller (add_download_task) or, under
\* SpecQueue, a coroutine calling put; caller w is worker w inside retry_task.
PutResume(i) ==
    /\ i \in DOMAIN putters
    /\ ~full(queue)
    /\ LET p == putters[i] IN
       /\ queue' = put_insert(queue, p.task)
       /\ putters' = Remove(putters, i)
       /\ last' = Call("put_resumed", generate_task_id(p.task.media_info), "true", p.task)
       /\ IF p.caller \in Workers
          THEN /\ wk' = [wk EXCEPT ![p.caller].current_task = NoTask,
                                   ![p.caller].pc =
                                       IF @ = "none" THEN "none"
                                       ELSE IF wk[p.caller].is_running THEN "get"
                                       ELSE "exited"]
               /\ UNCHANGED <<coord, client>>
          ELSE /\ IF client.pc = "put"
                  THEN /\ coord' = [coord EXCEPT !.files_queued = @ + 1]
                       /\ client' = [client EXCEPT !.pc = "idle"]
                       /\ dl' = [dl EXCEPT
                                   ![generate_task_id(p.task.media_info)].session = TRUE]
                  ELSE UNCHANGED <<coord, client, dl>>
               /\ UNCHANGED wk
       /\ p.caller \in Workers => UNCHANGED dl
    /\ UNCHANGED <<limiter, progress, run, monitor>>

---------------------------------------------------------------------------
(* SpecQueue: the DownloadQueue called directly *)

\* await queue.put(DownloadTask(mi, max_attempts=m))
QPut(mi, m) ==
    /\ queue.total_added + Len(putters) < MaxAdded
    /\ LET r == put(queue, DownloadTask(mi, m)) IN
       /\ queue' = r.q
       /\ putters' = IF r.ret = "suspended"
                     THEN Append(putters, [task |-> r.task, caller |-> 0])
                     ELSE putters
       /\ last' = Call("put", generate_task_id(mi), r.ret, r.task)
    /\ UNCHANGED <<wk, coord, client, dl>>
    /\ UNCHANGED <<limiter, progress, run, monitor>>

\* task = await queue.get(), by coroutine w, which holds no task
QGet(w) ==
    /\ wk[w].current_task = NoTask
    /\ queue.heap # <<>>
    /\ LET r == get(queue) IN
       /\ queue' = r.q
       /\ wk' = [wk EXCEPT ![w].current_task = r.task]
       /\ last' = Call("get", generate_task_id(r.task.media_info), "task", r.task)
    /\ UNCHANGED <<putters, coord, client, dl>>
    /\ UNCHANGED <<limiter, progress, run, monitor>>

\* queue.task_done(task, success) for the task w dequeued
QTaskDone(w, success) ==
    /\ wk[w].current_task # NoTask
    /\ ~Suspended(w)
    /\ queue' = task_done(queue, wk[w].current_task, success)
    /\ wk' = [wk EXCEPT ![w].current_task = NoTask]
    /\ last' = Call("task_done", generate_task_id(wk[w].current_task.media_info),
                    IF success THEN "true" ELSE "false", wk[w].current_task)
    /\ UNCHANGED <<putters, coord, client, dl>>
    /\ UNCHANGED <<limiter, progress, run, monitor>>

\* await queue.retry_task(task) for the task w dequeued
QRetryTask(w) ==
    /\ wk[w].current_task # NoTask
    /\ ~Suspended(w)
    /\ LET r == retry_task(queue, wk[w].current_task) IN
       /\ r.ret = "suspended" => queue.total_added + Len(putters) < MaxAdded
       /\ queue' = r.q
       /\ putters' = IF r.ret = "suspended"
                     THEN Append(putters, [task |-> r.task, caller |-> w])
                     ELSE putters
       /\ wk' = IF r.ret = "suspended" THEN wk
                ELSE [wk EXCEPT ![w].current_task = NoTask]
       /\ last' = Call("retry_task", generate_task_id(r.task.media_info), r.ret, r.task)
    /\ UNCHANGED <<coord, client, dl>>
    /\ UNCHANGED <<limiter, progress, run, monitor>>

\* queue.clear(), when there is something to clear
QClear ==
    /\ queue.heap # <<>> \/ queue.pending_tasks # {}
    /\ queue' = clear(queue)
    /\ last' = Call("clear", NoId, "none", NoTask)
    /\ UNCHANGED <<putters, wk, coord, client, dl>>
    /\ UNCHANGED <<limiter, progress, run, monitor>>

\* await queue.wait_empty() returns
QWaitEmpty ==
    /\ join_done(queue)
    /\ last' = Call("wait_empty", NoId, "returned", NoTask)
    /\ UNCHANGED <<queue, putters, wk, coord, client, dl>>
    /\ UNCHANGED <<limiter, progress, run, monitor>>

NextQueue ==
    \/ \E mi \in MediaInfos, m \in AttemptBounds : QPut(mi, m)
    \/ \E i \in DOMAIN putters : PutResume(i)
    \/ \E w \in Workers : QGet(w)
    \/ \E w \in Workers, success \in BOOLEAN : QTaskDone(w, success)
    \/ \E w \in Workers : QRetryTask(w)
    \/ QClear
    \/ QWaitEmpty

SpecQueue == Init /\ [][NextQueue]_vars

---------------------------------------------------------------------------
(* SpecLimiter: the RateLimiter called by concurrent coroutines *)

\* history: the position of this call in a run of calls that began on a full
\* bucket and between which no time has passed
burst_next(l) ==
    IF lock_free(l) /\ refill(l.tokens, l.elapsed) = burst_size * TicksPerToken
    THEN 1
    ELSE IF l.burst \in 1..burst_size THEN l.burst + 1 ELSE 0

\* await rate_limiter.acquire(c) is called
LAcquire(c) ==
    /\ limiter.pc[c] = "idle"
    /\ LET l == [limiter EXCEPT !.burst = burst_next(limiter)] IN
       IF lock_free(limiter)
       THEN /\ limiter' = acquire_enter(l, c)
            /\ last' = Call("acquire", NoId,
                            IF limiter'.pc[c] = "idle" THEN "granted" ELSE "sleep",
                            NoTask)
       ELSE /\ limiter' = [l EXCEPT !.waiters = Append(@, c), !.pc[c] = "lock",
                                    !.who = c]
            /\ last' = Call("acquire", NoId, "lock", NoTask)
    /\ UNCHANGED <<queue, putters, wk, coord, client, dl, progress, run, monitor>>

\* the first caller queued on the lock is woken by release and takes the lock
LLockResume(c) ==
    /\ limiter.pc[c] = "lock"
    /\ limiter.waiters # <<>>
    /\ Head(limiter.waiters) = c
    /\ ~limiter.locked
    /\ limiter' = acquire_enter([limiter EXCEPT !.waiters = Tail(@)], c)
    /\ last' = Call("lock_resume", NoId,
                    IF limiter'.pc[c] = "idle" THEN "granted" ELSE "sleep", NoTask)
    /\ UNCHANGED <<queue, putters, wk, coord, client, dl, progress, run, monitor>>

\* asyncio.sleep(wait_time) is over, not before wait_time has passed
LWake(c) ==
    /\ limiter.pc[c] = "sleep"
    /\ limiter.sleep_left[c] = 0
    /\ limiter' = acquire_wake(limiter, c)
    /\ last' = Call("wake", NoId, "granted", NoTask)
    /\ UNCHANGED <<queue, putters, wk, coord, client, dl, progress, run, monitor>>

\* time passes
LTick ==
    /\ limiter' = tick(limiter)
    /\ last' = Call("tick", NoId, "none", NoTask)
    /\ UNCHANGED <<queue, putters, wk, coord, client, dl, progress, run, monitor>>

NextLimiter ==
    \/ \E c \in Workers : LAcquire(c)
    \/ \E c \in Workers : LLockResume(c)
    \/ \E c \in Workers : LWake(c)
    \/ LTick

SpecLimiter == Init /\ [][NextLimiter]_vars

\* the event loop runs every coroutine that is ready, and time passes
SpecLimiterFair ==
    /\ SpecLimiter
    /\ WF_vars(LTick)
    /\ \A c \in Workers : WF_vars(LLockResume(c)) /\ WF_vars(LWake(c))

---------------------------------------------------------------------------
(* SpecPut: coroutines calling put concurrently, and get and task_done *)

\* await queue.put(DownloadTask(mi)) by one more coroutine, while up to
\* MaxPutters - 1 other calls of put are suspended
ConcurrentPut(mi) ==
    /\ queue.total_added < MaxAdded
    /\ Len(putters) < MaxPutters
    /\ LET r == put(queue, DownloadTask(mi, max_attempts_default)) IN
       /\ queue' = r.q
       /\ putters' = IF r.ret = "suspended"
                     THEN Append(putters, [task |-> r.task, caller |-> 0])
                     ELSE putters
       /\ last' = Call("put", generate_task_id(mi), r.ret, r.task)
    /\ UNCHANGED <<wk, coord, client, dl>>
    /\ UNCHANGED <<limiter, progress, run, monitor>>

NextPut ==
    \/ \E mi \in MediaInfos : ConcurrentPut(mi)
    \/ \E i \in DOMAIN putters : PutResume(i)
    \/ \E w \in Workers : QGet(w)
    \/ \E w \in Workers, success \in BOOLEAN : QTaskDone(w, success)

SpecPut == Init /\ [][NextPut]_vars

---------------------------------------------------------------------------
(* SpecOrder: put and get on a queue of capacity MaxHeap; the k-th task put
   has message_id k *)

OrderSizes == { mi.file_size : mi \in MediaInfos }

\* await queue.put(task) for the next message, the queue not being full
OrderPut(size) ==
    /\ queue.total_added < MaxOrdered
    /\ ~full(queue)
    /\ LET mi == [channel_id |-> 1, message_id |-> queue.total_added + 1,
                  file_size |-> size, filename |-> TRUE]
           r == put(queue, DownloadTask(mi, max_attempts_default))
       IN  /\ queue' = r.q
           /\ last' = Call("put", generate_task_id(mi), r.ret, r.task)
    /\ UNCHANGED <<putters, wk, coord, client, dl, limiter, progress, run, monitor>>

\* task = await queue.get()
OrderGet ==
    /\ queue.heap # <<>>
    /\ LET r == get(queue) IN
       /\ queue' = r.q
       /\ last' = Call("get", generate_task_id(r.task.media_info), "task", r.task)
    /\ UNCHANGED <<putters, wk, coord, client, dl, limiter, progress, run, monitor>>

NextOrder ==
    \/ \E size \in OrderSizes : OrderPut(size)
    \/ OrderGet

InitOrder == InitWith(NewQueue(MaxHeap))

SpecOrder == InitOrder /\ [][NextOrder]_vars

---------------------------------------------------------------------------
(* SpecProgress: get_progress_info and _estimate_time_remaining *)

\* one call of coordinator.get_progress_info() while running, the queue
\* reporting total_added, completed, failed and pending, elapsed_time seconds
\* after start
GetProgressInfo(total_tasks, completed_tasks, failed_tasks, pending_tasks, elapsed_time) ==
    /\ ~progress.called
    /\ completed_tasks + failed_tasks + pending_tasks <= total_tasks
    /\ progress' = get_progress_info(total_tasks, completed_tasks, failed_tasks,
                                     pending_tasks, elapsed_time)
    /\ UNCHANGED <<queue, putters, wk, coord, client, last, dl, limiter, run, monitor>>

NextProgress ==
    \E total_tasks, completed_tasks, failed_tasks, pending_tasks \in 0..MaxTasks,
       elapsed_time \in 0..MaxElapsed :
        GetProgressInfo(total_tasks, completed_tasks, failed_tasks, pending_tasks,
                        elapsed_time)

SpecProgress == Init /\ [][NextProgress]_vars

---------------------------------------------------------------------------
(* SpecRuns: main.py run again and again over one channel *)

\* a run starts: _process_channel_concurrent reads the tracker and iterates
\* parse_messages
RunStart ==
    /\ run.phase = "ended"
    /\ run' = [run EXCEPT !.phase = "parsing",
                          !.cursor = parse_messages(run.last_processed_id)]
    /\ UNCHANGED <<queue, putters, wk, coord, client, last, dl, limiter, progress, monitor>>

\* the next message is yielded: it is marked processed, then submitted;
\* add_download_task returns accepted or not
Discover(accepted) ==
    /\ run.phase = "parsing"
    /\ run.cursor \in Messages
    /\ run' = [mark_message_processed(run, run.cursor) EXCEPT
                  !.status[run.cursor] = IF accepted THEN "queued" ELSE "rejected",
                  !.cursor = @ + 1]
    /\ UNCHANGED <<queue, putters, wk, coord, client, last, dl, limiter, progress, monitor>>

\* a worker is through with a queued item: its download succeeded, or it
\* failed and the item was dropped
DownloadEnd(m, success) ==
    /\ run.phase = "parsing"
    /\ run.status[m] = "queued"
    /\ run' = [run EXCEPT !.status[m] = IF success THEN "completed" ELSE "failed"]
    /\ UNCHANGED <<queue, putters, wk, coord, client, last, dl, limiter, progress, monitor>>

\* the run ends, by coordinator.stop() or by an interruption: what is still
\* queued is abandoned
RunEnd ==
    /\ run.phase = "parsing"
    /\ run' = [run EXCEPT !.phase = "ended",
                          !.status = [m \in Messages |->
                                         IF @[m] = "queued" THEN "abandoned" ELSE @[m]]]
    /\ UNCHANGED <<queue, putters, wk, coord, client, last, dl, limiter, progress, monitor>>

NextRuns ==
    \/ RunStart
    \/ \E accepted \in BOOLEAN : Discover(accepted)
    \/ \E m \in Messages, success \in BOOLEAN : DownloadEnd(m, success)
    \/ RunEnd

SpecRuns == Init /\ [][NextRuns]_vars

---------------------------------------------------------------------------
(* Spec: DownloadCoordinator, called by one sequential caller *)

\* DownloadCoordinator._update_session_stats
update_session_stats(c, q) ==
    [c EXCEPT !.files_completed = Cardinality(q.completed_tasks),
              !.files_failed = Cardinality(q.failed_tasks),
              !.total_bytes_downloaded =
                  SumBytes({ w \in Workers : wk[w].pc # "none" })]

\* a start that does not look at the running flag
start_noop_never(c) == FALSE

\* start: `if self.is_running: return`
start_noop(c) == c.is_running

\* await coordinator.start(); WorkerPool.start creates the workers and one
\* asyncio task per worker, none of which has run yet
Start ==
    /\ client.pc = "idle"
    /\ IF start_noop(coord)
       THEN /\ last' = Call("start", NoId, "noop", NoTask)
            /\ UNCHANGED <<coord, wk, dl>>
       ELSE /\ coord' = [coord EXCEPT !.is_running = TRUE]
            /\ wk' = [w \in Workers |-> [NoWorker EXCEPT !.pc = "created"]]
            /\ dl' = [i \in TaskIds |-> [dl[i] EXCEPT !.session = FALSE,
                                                     !.stopped = FALSE]]
            /\ last' = Call("start", NoId, "started", NoTask)
    /\ UNCHANGED <<queue, putters, client>>
    /\ UNCHANGED <<limiter, progress, run, monitor>>

\* stop: `if not self.is_running: return`
stop_noop(c) == ~c.is_running

\* a stop that drops what the worker is doing
worker_stop_aborting(worker) ==
    [worker EXCEPT !.is_running = FALSE, !.current_task = NoTask,
                   !.pc = IF worker.current_task # NoTask THEN "exited" ELSE @]

\* DownloadWorker.stop
worker_stop(worker) == [worker EXCEPT !.is_running = FALSE]

\* await coordinator.stop() up to asyncio.gather: every worker is told to stop
Stop ==
    /\ client.pc = "idle"
    /\ IF stop_noop(coord)
       THEN /\ last' = Call("stop", NoId, "noop", NoTask)
            /\ UNCHANGED <<coord, wk, client, dl>>
       ELSE /\ coord' = [coord EXCEPT !.is_running = FALSE]
            /\ wk' = [w \in Workers |-> worker_stop(wk[w])]
            /\ client' = [client EXCEPT !.pc = "stop"]
            /\ dl' = [i \in TaskIds |-> [dl[i] EXCEPT !.stopped = i \in InFlight]]
            /\ last' = Call("stop", NoId, "suspended", NoTask)
    /\ UNCHANGED <<queue, putters>>
    /\ UNCHANGED <<limiter, progress, run, monitor>>

\* every worker loop is over, by leaving `while self.is_running` or by a fault
\* caught in start
gather_done == \A w \in Workers : wk[w].pc \in {"exited", "crashed"}

\* coordinator.stop() after the gather: the pool forgets its workers, the
\* queue is cleared
StopReturn ==
    /\ client.pc = "stop"
    /\ gather_done
    /\ wk' = [w \in Workers |-> NoWorker]
    /\ queue' = clear(queue)
    /\ client' = [client EXCEPT !.pc = "idle"]
    /\ last' = Call("stop", NoId, "returned", NoTask)
    /\ UNCHANGED <<putters, coord, dl>>
    /\ UNCHANGED <<limiter, progress, run, monitor>>

\* a submission that does not look at the running flag
add_refused_never(c) == FALSE

\* add_download_task: `if not self.is_running: ... return False`
add_refused(c) == ~c.is_running

\* await coordinator.add_download_task(mi); once put has returned, the log
\* line reads mi['filename'] and the call raises KeyError when it is missing
AddDownloadTask(mi) ==
    /\ client.pc = "idle"
    /\ queue.total_added + Len(putters) < MaxAdded
    /\ IF add_refused(coord)
       THEN /\ last' = Call("add_download_task", generate_task_id(mi), "false", NoTask)
            /\ UNCHANGED <<queue, putters, coord, client, dl>>
       ELSE LET r == put(queue, DownloadTask(mi, max_attempts_default)) IN
            /\ queue' = r.q
            /\ putters' = IF r.ret = "suspended"
                          THEN Append(putters, [task |-> r.task, caller |-> 0])
                          ELSE putters
            /\ client' = IF r.ret = "suspended"
                         THEN [client EXCEPT !.pc = "put"] ELSE client
            /\ coord' = IF r.ret = "true"
                        THEN [coord EXCEPT !.files_queued = @ + 1] ELSE coord
            /\ dl' = IF r.ret = "true"
                     THEN [dl EXCEPT ![generate_task_id(mi)].session = TRUE] ELSE dl
            /\ last' = Call("add_download_task", generate_task_id(mi),
                            IF r.ret # "suspended" /\ ~mi.filename
                            THEN "raised" ELSE r.ret, r.task)
    /\ UNCHANGED wk
    /\ UNCHANGED <<limiter, progress, run, monitor>>

\* await coordinator.wait_completion()
WaitCompletion ==
    /\ client.pc = "idle"
    /\ IF ~coord.is_running
       THEN /\ last' = Call("wait_completion", NoId, "not_running", NoTask)
            /\ UNCHANGED <<coord, client>>
       ELSE IF join_done(queue)
            THEN /\ coord' = update_session_stats(coord, queue)
                 /\ last' = Call("wait_completion", NoId, "returned", NoTask)
                 /\ UNCHANGED client
            ELSE /\ client' = [client EXCEPT !.pc = "join"]
                 /\ last' = Call("wait_completion", NoId, "suspended", NoTask)
                 /\ UNCHANGED coord
    /\ UNCHANGED <<queue, putters, wk, dl>>
    /\ UNCHANGED <<limiter, progress, run, monitor>>

\* wait_completion resumes from queue.join()
WaitReturn ==
    /\ client.pc = "join"
    /\ join_done(queue)
    /\ coord' = update_session_stats(coord, queue)
    /\ client' = [client EXCEPT !.pc = "idle"]
    /\ last' = Call("wait_completion", NoId, "returned", NoTask)
    /\ UNCHANGED <<queue, putters, wk, dl>>
    /\ UNCHANGED <<limiter, progress, run, monitor>>

---------------------------------------------------------------------------
(* Spec: DownloadWorker *)

\* a loop that ends after one task
loop_next_once(w) == "exited"

\* `while self.is_running` after one _process_next_task
loop_next(w) == IF wk[w].is_running THEN "get" ELSE "exited"

\* DownloadWorker.start runs for the first time
WorkerStart(w) ==
    /\ wk[w].pc = "created"
    /\ wk' = [wk EXCEPT ![w].is_running = TRUE, ![w].pc = "get"]
    /\ last' = Call("worker_start", NoId, "none", NoTask)
    /\ UNCHANGED <<queue, putters, coord, client, dl>>
    /\ UNCHANGED <<limiter, progress, run, monitor>>

\* _process_next_task: task = await self.queue.get()
WorkerGet(w) ==
    /\ wk[w].pc = "get"
    /\ queue.heap # <<>>
    /\ LET r == get(queue) IN
       /\ queue' = r.q
       /\ wk' = [wk EXCEPT ![w].current_task = r.task, ![w].pc = "acquire"]
       /\ last' = Call("get", generate_task_id(r.task.media_info), "task", r.task)
    /\ UNCHANGED <<putters, coord, client, dl>>
    /\ UNCHANGED <<limiter, progress, run, monitor>>

\* a worker that goes on without a permit
acquire_permit_none(d) == d

\* await self.rate_limiter.acquire(self.worker_id) returns
acquire_permit(d) == [d EXCEPT !.permits = @ + 1]

\* _download_file up to download_media_file: the log line raises KeyError
\* for a payload without 'filename', otherwise the operation is invoked
invoke_download(d, task) ==
    [d EXCEPT !.calls = IF task.media_info.filename THEN @ + 1 ELSE @]

\* _process_next_task: the rate limiter grants the permit and _download_file
\* starts: it invokes the download operation, unless its log line has raised
\* KeyError before
WorkerAcquire(w) ==
    /\ wk[w].pc = "acquire"
    /\ wk' = [wk EXCEPT ![w].pc = "download"]
    /\ dl' = [dl EXCEPT ![generate_task_id(wk[w].current_task.media_info)] =
                            invoke_download(acquire_permit(@), wk[w].current_task)]
    /\ last' = Call("download", generate_task_id(wk[w].current_task.media_info),
                    IF wk[w].current_task.media_info.filename
                    THEN "invoked" ELSE "raised", wk[w].current_task)
    /\ UNCHANGED <<queue, putters, coord, client>>
    /\ UNCHANGED <<limiter, progress, run, monitor>>

\* a _download_file that counts the bytes of a skipped file too
download_file_counts_skipped(worker, task, outcome) ==
    [worker |-> [worker EXCEPT !.bytes_downloaded =
                    IF outcome # "failed" THEN @ + task.media_info.file_size ELSE @],
     success |-> outcome # "failed"]

\* _download_file, given the status download_media_file ends with: the
\* worker's statistics and the value returned
download_file(worker, task, outcome) ==
    [worker |-> [worker EXCEPT !.bytes_downloaded =
                    IF outcome = "success" THEN @ + task.media_info.file_size ELSE @],
     success |-> outcome # "failed"]

\* _download_file returns and _process_next_task does its bookkeeping
WorkerDownload(w, outcome) ==
    /\ wk[w].pc = "download"
    /\ wk[w].current_task.media_info.filename
    /\ LET task == wk[w].current_task
           task_id == generate_task_id(task.media_info)
       IN
       IF download_file(wk[w], task, outcome).success
       THEN /\ queue' = task_done(queue, task, TRUE)
            /\ wk' = [wk EXCEPT
                        ![w] = [download_file(wk[w], task, outcome).worker EXCEPT
                                  !.tasks_completed = @ + 1,
                                  !.current_task = NoTask,
                                  !.pc = loop_next(w)]]
            /\ dl' = [dl EXCEPT ![task_id].downloaded =
                                    IF outcome = "success" THEN @ + 1 ELSE @]
            /\ last' = Call("task_done", task_id, "true", task)
            /\ UNCHANGED putters
       ELSE LET r == retry_task(queue, task) IN
            /\ queue' = r.q
            /\ putters' = IF r.ret = "suspended"
                          THEN Append(putters, [task |-> r.task, caller |-> w])
                          ELSE putters
            /\ wk' = IF r.ret = "suspended"
                     THEN [wk EXCEPT ![w].pc = "retry_put"]
                     ELSE [wk EXCEPT
                             ![w].tasks_failed = IF r.ret = "false" THEN @ + 1 ELSE @,
                             ![w].current_task = NoTask,
                             ![w].pc = loop_next(w)]
            /\ dl' = [dl EXCEPT ![task_id].failures = @ + 1]
            /\ last' = Call("retry_task", task_id, r.ret, r.task)
    /\ UNCHANGED <<coord, client>>
    /\ UNCHANGED <<limiter, progress, run, monitor>>

\* an except clause that does not reach the finally clause
handled_without_finally(worker, raises) ==
    IF raises
    THEN [worker EXCEPT !.pc = "crashed"]
    ELSE [worker EXCEPT !.tasks_failed = @ + 1,
                        !.pc = IF worker.is_running THEN "get" ELSE "exited"]

\* _process_next_task from `except Exception` on, for a worker holding a
\* task: queue.task_done(current_task, success=False), which raises out of
\* the handler (and ends the loop in start) or not, tasks_failed += 1, and
\* the finally clause
handled(worker, raises) ==
    IF raises
    THEN [worker EXCEPT !.current_task = NoTask, !.pc = "crashed"]
    ELSE [worker EXCEPT !.tasks_failed = @ + 1, !.current_task = NoTask,
                        !.pc = IF worker.is_running THEN "get" ELSE "exited"]

\* _process_next_task for a task without 'filename': _download_file returns
\* False (KeyError caught), retry_task is called, and when it returns False
\* tasks_failed grows and the log line raises KeyError into the handler
WorkerBookkeepingFault(w) ==
    /\ wk[w].pc = "download"
    /\ ~wk[w].current_task.media_info.filename
    /\ LET task == wk[w].current_task
           task_id == generate_task_id(task.media_info)
           r == retry_task(queue, task)
       IN
       /\ putters' = IF r.ret = "suspended"
                     THEN Append(putters, [task |-> r.task, caller |-> w])
                     ELSE putters
       /\ IF r.ret = "false"
          THEN /\ queue' = task_done(r.q, task, FALSE)
               /\ wk' = [wk EXCEPT ![w] =
                           handled([wk[w] EXCEPT !.tasks_failed = @ + 1],
                                   task_done_raises(r.q))]
               /\ last' = Call("fault", task_id,
                               IF task_done_raises(r.q) THEN "crashed" ELSE "handled",
                               r.task)
          ELSE /\ queue' = r.q
               /\ wk' = IF r.ret = "suspended"
                        THEN [wk EXCEPT ![w].pc = "retry_put"]
                        ELSE [wk EXCEPT ![w].current_task = NoTask,
                                        ![w].pc = loop_next(w)]
               /\ last' = Call("retry_task", task_id, r.ret, r.task)
    /\ UNCHANGED <<coord, client, dl, limiter, progress, run, monitor>>

WorkerStep(w) ==
    \/ WorkerStart(w)
    \/ WorkerGet(w)
    \/ WorkerAcquire(w)
    \/ \E outcome \in Outcomes : WorkerDownload(w, outcome)
    \/ WorkerBookkeepingFault(w)

Next ==
    \/ Start
    \/ Stop
    \/ StopReturn
    \/ \E mi \in Payloads : AddDownloadTask(mi)
    \/ \E i \in DOMAIN putters : PutResume(i)
    \/ WaitCompletion
    \/ WaitReturn
    \/ \E w \in Workers : WorkerStart(w)
    \/ \E w \in Workers : WorkerGet(w)
    \/ \E w \in Workers : WorkerAcquire(w)
    \/ \E w \in Workers, outcome \in Outcomes : WorkerDownload(w, outcome)
    \/ \E w \in Workers : WorkerBookkeepingFault(w)

Spec == Init /\ [][Next]_vars

---------------------------------------------------------------------------
(* SpecMonitor: Spec with the DownloadMonitor and get_session_summary *)

\* get_active_downloads reads media_info['filename'] of every current task
get_progress_info_raises ==
    /\ coord.is_running
    /\ \E w \in Workers : /\ wk[w].pc # "none"
                           /\ wk[w].current_task # NoTask
                           /\ ~wk[w].current_task.media_info.filename

\* await monitor.start_monitoring()
StartMonitoring ==
    /\ IF monitor.is_monitoring
       THEN /\ last' = Call("start_monitoring", NoId, "noop", NoTask)
            /\ UNCHANGED monitor
       ELSE /\ monitor' = [is_monitoring |-> TRUE, task |-> "created"]
            /\ last' = Call("start_monitoring", NoId, "started", NoTask)
    /\ UNCHANGED <<queue, putters, wk, coord, client, dl, limiter, progress, run>>

\* _monitor_loop: one get_progress_info and display, then asyncio.sleep; a
\* fault of get_progress_info is logged and ends the loop
MonitorLoop ==
    /\ monitor.task \in {"created", "sleeping"}
    /\ monitor' = [monitor EXCEPT !.task =
                      IF ~monitor.is_monitoring \/ get_progress_info_raises
                      THEN "done" ELSE "sleeping"]
    /\ last' = Call("monitor_loop", NoId,
                    IF ~monitor.is_monitoring THEN "ended"
                    ELSE IF get_progress_info_raises THEN "fault_logged"
                    ELSE "displayed", NoTask)
    /\ UNCHANGED <<queue, putters, wk, coord, client, dl, limiter, progress, run>>

\* await monitor.stop_monitoring(): the task is cancelled and awaited; a loop
\* inside asyncio.sleep catches CancelledError and returns, a task that has
\* not run yet is cancelled and the CancelledError of the await is caught
StopMonitoring ==
    /\ IF ~monitor.is_monitoring
       THEN /\ last' = Call("stop_monitoring", NoId, "noop", NoTask)
            /\ UNCHANGED monitor
       ELSE /\ monitor' = [is_monitoring |-> FALSE,
                           task |-> IF monitor.task = "created"
                                    THEN "cancelled" ELSE "done"]
            /\ last' = Call("stop_monitoring", NoId, "returned", NoTask)
    /\ UNCHANGED <<queue, putters, wk, coord, client, dl, limiter, progress, run>>

\* coordinator.get_session_summary(), by the caller of the coordinator
GetSessionSummary ==
    /\ client.pc = "idle"
    /\ coord' = update_session_stats(coord, queue)
    /\ last' = Call("get_session_summary", NoId, "returned", NoTask)
    /\ UNCHANGED <<queue, putters, wk, client, dl, monitor, limiter, progress, run>>

\* monitor.display_summary(): coordinator.get_session_summary() and prints
DisplaySummary ==
    /\ client.pc = "idle"
    /\ coord' = update_session_stats(coord, queue)
    /\ last' = Call("display_summary", NoId, "returned", NoTask)
    /\ UNCHANGED <<queue, putters, wk, client, dl, monitor, limiter, progress, run>>

NextMonitor ==
    \/ Next
    \/ StartMonitoring
    \/ MonitorLoop
    \/ StopMonitoring
    \/ GetSessionSummary
    \/ DisplaySummary

SpecMonitor == Init /\ [][NextMonitor]_vars

---------------------------------------------------------------------------
(* Properties *)

Known(q) == q.pending_tasks \cup q.completed_tasks

C2_RetryResubmits ==
    (last.op = "retry_task" /\ last.task.attempts < last.task.max_attempts)
        => (last.ret = "true" /\ last.id \in Enqueued(queue))

\* C3: a task all of whose downloads failed and that is neither enqueued nor
\* held by a worker any more has been downloaded max_attempts times and is in
\* the failed set, not in pending.
C3_FailedAfterMaxAttempts ==
    \A id \in TaskIds :
        ( /\ dl[id].calls > 0
          /\ dl[id].failures = dl[id].calls
          /\ id \notin Enqueued(queue)
          /\ id \notin InFlight )
        => ( /\ dl[id].calls = max_attempts_default
             /\ id \in queue.failed_tasks
             /\ id \notin queue.pending_tasks )

\* C4: while wait_completion is suspended on a running coordinator, the wait
\* can return or some step of the system is still possible.
C4_WaitCompletionReturns ==
    (client.pc = "join" /\ coord.is_running) => ENABLED Next

\* C5: when wait_completion returns on a running coordinator, nothing is
\* pending, enqueued or held by a worker, and every identity accepted since
\* the coordinator was started is completed or failed.
C5_WaitCompletionSafe ==
    (last.op = "wait_completion" /\ last.ret = "returned")
        => /\ queue.pending_tasks = {}
           /\ queue.heap = <<>>
           /\ InFlight = {}
           /\ \A id \in TaskIds :
                 dl[id].session
                     => id \in queue.completed_tasks \cup queue.failed_tasks

\* wait_completion returned after two tasks of this run were downloaded
C5_Witness ==
    /\ last.op = "wait_completion"
    /\ last.ret = "returned"
    /\ Cardinality({ id \in TaskIds : dl[id].session /\ dl[id].calls > 0 }) >= 2

\* C6: while stop is suspended waiting for the worker loops, stop can return
\* or some step of the system is still possible.
C6_StopReturns ==
    client.pc = "stop" => ENABLED Next

\* C7: a put of a new identity on a queue that holds max_size tasks returns
\* false and records nothing.
C7_PutOnFullFails ==
    [][ ( /\ last'.op = "put"
          /\ Len(queue.heap) >= max_size
          /\ last'.id \notin Known(queue) )
        => (last'.ret = "false" /\ queue' = queue) ]_vars

\* C8: no identity is in more than one of pending, completed and failed.
C8_SetsDisjoint ==
    /\ queue.pending_tasks \cap queue.completed_tasks = {}
    /\ queue.pending_tasks \cap queue.failed_tasks = {}
    /\ queue.completed_tasks \cap queue.failed_tasks = {}

\* C9: an identity in the failed set is refused by every later put and never
\* enters pending again.
C9_FailedNeverResurrected ==
    [][ /\ \A id \in queue.failed_tasks : id \notin queue'.pending_tasks
        /\ (last'.op = "put" /\ last'.id \in queue.failed_tasks)
              => last'.ret = "false" ]_vars

\* C10: get returns a task of the heap whose priority is minimal among the
\* tasks enqueued when it is called, and leaves the others enqueued; two gets
\* in a row return priorities in non-decreasing order.
C10_GetReturnsMinimum ==
    [][ last'.op = "get"
        => /\ \A i \in DOMAIN queue.heap :
                 last'.task.priority <= queue.heap[i].priority
           /\ \E i \in DOMAIN queue.heap : queue.heap[i] = last'.task
           /\ Len(queue'.heap) = Len(queue.heap) - 1
           /\ last.op = "get" => last.task.priority <= last'.task.priority ]_vars

\* a get returned a task of lower priority value than one left enqueued
C10_Witness ==
    /\ last.op = "get"
    /\ queue.heap # <<>>
    /\ last.task.priority < queue.heap[1].priority
    /\ last.task.media_info.file_size < MB

\* C11: an enqueued task that has been retried k times, 1 <= k < max_attempts,
\* has priority = floor(file_size / MB) + 1000 * k.
C11_RetryPriority ==
    \A i \in DOMAIN queue.heap :
        LET t == queue.heap[i] IN
        (t.attempts >= 1 /\ t.attempts < t.max_attempts)
            => t.priority = (t.media_info.file_size \div MB) + retry_offset * t.attempts

\* C12: a retry_task whose incremented attempt counter reaches max_attempts
\* returns false, takes the identity out of pending, puts it in the failed
\* set, adds one to total_failed and enqueues nothing.
C12_RetryExhausted ==
    [][ (last'.op = "retry_task" /\ last'.task.attempts >= last'.task.max_attempts)
        => /\ last'.ret = "false"
           /\ last'.id \notin queue'.pending_tasks
           /\ last'.id \in queue'.failed_tasks
           /\ queue'.total_failed = queue.total_failed + 1
           /\ queue'.heap = queue.heap
           /\ queue'.total_added = queue.total_added
           /\ putters' = putters ]_vars

\* a task with the default bound was retried until its third attempt failed
C12_Witness ==
    /\ last.op = "retry_task"
    /\ last.ret = "false"
    /\ last.task.max_attempts = max_attempts_default
    /\ last.task.attempts = max_attempts_default
    /\ last.id \in queue.failed_tasks

Accounted(q) == q.pending_tasks \cup q.completed_tasks \cup q.failed_tasks

\* C13: the three sets account for every accepted identity exactly once: an
\* accepted put leaves its identity in one of them, no operation takes an
\* identity out of all three, and the sizes get_stats reports add up to the
\* number of identities accounted for.
C13_StatsAccountForAll ==
    [][ /\ (last'.op \in {"put", "put_resumed", "retry_task"} /\ last'.ret = "true")
            => last'.id \in Accounted(queue')
        /\ Accounted(queue) \subseteq Accounted(queue')
        /\ Cardinality(queue'.pending_tasks) + Cardinality(queue'.completed_tasks)
               + Cardinality(queue'.failed_tasks) = Cardinality(Accounted(queue')) ]_vars

\* C14: total_completed is the size of the completed set, total_failed the
\* size of the failed set, and current_size the number of enqueued tasks.
C14_CountersReconcile ==
    /\ queue.total_completed = Cardinality(queue.completed_tasks)
    /\ queue.total_failed = Cardinality(queue.failed_tasks)
    /\ queue.current_size = Len(queue.heap)

\* C15: the limiter's tokens stay between 0 and burst_size.
C15_TokensInRange ==
    /\ limiter.tokens >= 0
    /\ limiter.tokens <= burst_size * TicksPerToken

\* a permit was granted from a bucket that the refill had capped at
\* burst_size, after permits had been granted before
C15_Witness ==
    /\ last.op = "acquire"
    /\ last.ret = "granted"
    /\ limiter.tokens = (burst_size - 1) * TicksPerToken
    /\ Len(limiter.grants) > burst_size

\* C16: of the calls made from a full bucket with no time passing between
\* them, the first burst_size return at once with a permit; the call after
\* them is suspended for at least 1/rate minus the time since the last
\* refill (it returns at once only when that much time has passed).
C16_BurstThenWait ==
    [][ last'.op = "acquire"
        => /\ limiter'.burst \in 1..burst_size => last'.ret = "granted"
           /\ limiter'.burst = burst_size + 1
                 => \/ /\ last'.ret = "sleep"
                       /\ limiter'.sleep_left[limiter'.who]
                              >= TicksPerToken - limiter.elapsed
                       /\ limiter'.sleep_left[limiter'.who] > 0
                    \/ /\ last'.ret = "granted"
                       /\ limiter.elapsed >= TicksPerToken ]_vars

\* the call after a burst, made one tick later, sleeps one tick less than
\* 1/rate
C16_Witness ==
    /\ last.op = "acquire"
    /\ last.ret = "sleep"
    /\ limiter.burst = burst_size + 1
    /\ limiter.sleep_left[limiter.who] = TicksPerToken - 1

Sleeping(l) == { c \in Workers : l.pc[c] = "sleep" }

\* C18: at most one caller is inside acquire's critical section, the lock is
\* taken exactly while a caller sleeps inside it, and while a caller sleeps
\* there the tokens and the permits change only by that caller waking up.
C18_OneCriticalSection ==
    [][ /\ Cardinality(Sleeping(limiter')) <= 1
        /\ limiter'.locked <=> Sleeping(limiter') # {}
        /\ \A c \in Sleeping(limiter) :
              (limiter'.tokens # limiter.tokens \/ Len(limiter'.grants) > Len(limiter.grants)
                 \/ (limiter'.elapsed = 0 /\ limiter.elapsed # 0))
                  => (last'.op = "wake" /\ limiter'.who = c) ]_vars

\* every other caller called acquire while one was asleep inside it
C18_Witness ==
    /\ Sleeping(limiter) # {}
    /\ Len(limiter.waiters) = num_workers - 1
    /\ last.op = "acquire"
    /\ last.ret = "lock"

\* C19: every call of acquire eventually returns, with a permit.
C19_AcquireReturns ==
    \A c \in Workers : (limiter.pc[c] # "idle") ~> (limiter.pc[c] = "idle")

\* a caller that had to wait for the lock was granted its permit
C19_Witness ==
    /\ last.op = "lock_resume"
    /\ last.ret = "granted"
    /\ limiter.grants # <<>>
    /\ limiter.grants[Len(limiter.grants)] = 0

Unnamed_ids == { generate_task_id(mi) : mi \in Unnamed }

\* C20: a fault inside _process_next_task does not end the worker's loop: no
\* worker ever crashes, and after the fault the worker holds no task, its
\* running flag is as before and it is about to dequeue the next task (or to
\* leave the loop because stop had been signalled).
C20_FaultKeepsLoop ==
    [][ /\ \A w \in Workers : wk'[w].pc # "crashed"
        /\ last'.op = "fault"
             => \A w \in Workers :
                   wk'[w] # wk[w]
                      => /\ wk'[w].current_task = NoTask
                         /\ wk'[w].is_running = wk[w].is_running
                         /\ wk'[w].pc = IF wk[w].is_running THEN "get" ELSE "exited" ]_vars

\* the only worker that handled a fault has dequeued another task since
C20_Witness ==
    \E w \in Workers :
        /\ wk[w].tasks_failed >= 2
        /\ \A v \in Workers \ {w} : wk[v].tasks_failed = 0
        /\ queue.failed_tasks = Unnamed_ids
        /\ wk[w].is_running
        /\ wk[w].current_task # NoTask
        /\ wk[w].current_task.media_info.filename

Reports == {"task_done", "retry_task", "fault", "put_resumed"}

\* C21: a worker lets go of its task only in the step that reports the
\* task's outcome to the queue (task_done, retry_task or the fault handler),
\* a worker loop ends only at the end of such a step, stop being signalled,
\* and every task a worker held when stop was signalled has, once no worker
\* holds it, been completed, failed or handed to retry_task.
C21_StopIsCooperative ==
    [][ /\ \A w \in Workers :
              (wk[w].current_task # NoTask /\ wk'[w].current_task = NoTask)
                 => /\ last'.op \in Reports
                    /\ last'.id = generate_task_id(wk[w].current_task.media_info)
        /\ \A w \in Workers :
              (wk[w].pc # "exited" /\ wk'[w].pc = "exited")
                 => /\ wk[w].current_task # NoTask
                    /\ ~wk[w].is_running
                    /\ last'.op \in Reports
        /\ \A id \in TaskIds :
              (dl'[id].stopped /\ id \notin InFlight')
                 => \/ id \in queue'.completed_tasks
                    \/ id \in queue'.failed_tasks
                    \/ dl'[id].failures >= 1 ]_vars

\* a download in flight when stop was signalled completed afterwards, and
\* its worker left the loop
C21_Witness ==
    /\ client.pc = "stop"
    /\ last.op = "task_done"
    /\ dl[last.id].stopped
    /\ dl[last.id].calls >= 1
    /\ last.id \in queue.completed_tasks
    /\ \E w \in Workers : wk[w].pc = "exited" /\ wk[w].bytes_downloaded > 0

\* C22: add_download_task on a coordinator that is not running returns false
\* and changes neither the queue nor the coordinator nor the workers.
C22_AddWhenStoppedRefused ==
    [][ (last'.op = "add_download_task" /\ ~coord.is_running)
        => /\ last'.ret = "false"
           /\ queue' = queue
           /\ putters' = putters
           /\ coord' = coord
           /\ wk' = wk ]_vars

\* after a stop, a submission the queue itself would have accepted was refused
C22_Witness ==
    /\ last.op = "add_download_task"
    /\ last.ret = "false"
    /\ ~coord.is_running
    /\ queue.total_added > 0
    /\ last.id \notin Known(queue)

\* C23: start on a running coordinator and stop on a stopped one change
\* nothing, and workers are created only when there are none.
C23_LifecycleNoOps ==
    [][ /\ (last'.op = "start" /\ coord.is_running)
            => /\ last'.ret = "noop"
               /\ UNCHANGED <<queue, putters, wk, coord, client, dl>>
        /\ (last'.op = "stop" /\ client.pc = "idle" /\ ~coord.is_running)
            => /\ last'.ret = "noop"
               /\ UNCHANGED <<queue, putters, wk, coord, client, dl>>
        /\ (last'.op = "start" /\ last'.ret = "started")
            => /\ ~coord.is_running
               /\ \A w \in Workers : wk[w].pc = "none" /\ wk'[w].pc = "created" ]_vars

\* start was called while a worker of the running coordinator held a task
C23_Witness ==
    /\ last.op = "start"
    /\ last.ret = "noop"
    /\ coord.is_running
    /\ \E w \in Workers : wk[w].current_task # NoTask

\* C24: when stop on a running coordinator returns, nothing is enqueued,
\* pending is empty and current_size is 0, and the completed set, the failed
\* set, total_completed and total_failed are what they were before.
C24_StopClearsQueueOnly ==
    [][ (last'.op = "stop" /\ last'.ret = "returned")
        => /\ queue'.heap = <<>>
           /\ queue'.pending_tasks = {}
           /\ queue'.current_size = 0
           /\ queue'.completed_tasks = queue.completed_tasks
           /\ queue'.failed_tasks = queue.failed_tasks
           /\ queue'.total_completed = queue.total_completed
           /\ queue'.total_failed = queue.total_failed ]_vars

\* stop returned, having abandoned an accepted task and kept a completed one
C24_Witness ==
    /\ last.op = "stop"
    /\ last.ret = "returned"
    /\ queue.completed_tasks # {}
    /\ queue.total_added
          > Cardinality(queue.completed_tasks) + Cardinality(queue.failed_tasks)
    /\ queue.heap = <<>>

Abs(n) == IF n < 0 THEN -n ELSE n

\* C25: the progress_percentage get_progress_info reports is 0 when nothing
\* was added and otherwise the tenth of a percent nearest to
\* (completed + failed) / added * 100; for added 10, completed 4 and failed 1
\* it is 50.0.
C25_ProgressPercentage ==
    progress.called =>
        LET t == progress.total_tasks
            n == progress.completed_tasks + progress.failed_tasks
            p == progress.progress_percentage
        IN  /\ t = 0 => p = 0
            /\ t > 0 => 2 * Abs(p * t - n * 1000) <= t
            /\ (t = 10 /\ progress.completed_tasks = 4 /\ progress.failed_tasks = 1)
                  => p = 500

\* the example of the claim: 10 added, 4 completed, 1 failed, 50.0 reported
C25_Witness ==
    /\ progress.called
    /\ progress.total_tasks = 10
    /\ progress.completed_tasks = 4
    /\ progress.failed_tasks = 1
    /\ progress.progress_percentage = 500

\* C26: the estimated time remaining is pending * (elapsed / completed),
\* in whole seconds, whenever completed > 0, and is unknown exactly when
\* completed = 0.
C26_EtaWheneverCompleted ==
    progress.called =>
        LET eta == progress.estimated_time_remaining
        IN  /\ progress.completed_tasks = 0 <=> ~eta.known
            /\ progress.completed_tasks > 0 =>
                  eta.seconds = (progress.pending_tasks * progress.elapsed_time)
                                   \div progress.completed_tasks

\* C27: the persisted last-processed message id never advances past an
\* item whose submission was rejected or whose download did not complete
\* (failed, or abandoned when the run ended), so that the next run
\* discovers the item again.
C27_CursorBehindUnfinished ==
    \A m \in Messages :
        run.status[m] \in {"rejected", "failed", "abandoned"}
            => /\ run.last_processed_id < m
               /\ run.phase = "parsing" => run.cursor <= m

\* C28: when a worker is through with the task it dequeued and the task is
\* not back in the queue, task_done has been performed for it exactly once
\* (one more acknowledgment counted, one unfinished item less); in no case
\* is it performed twice for one dequeue.
C28_AckOncePerDequeue ==
    [][ \A w \in Workers :
          (wk[w].current_task # NoTask /\ wk'[w].current_task = NoTask
             /\ last'.op \in Reports)
          => LET acks == (queue'.total_completed + queue'.total_failed)
                           - (queue.total_completed + queue.total_failed)
             IN  /\ acks <= 1
                 /\ last'.id \notin Enqueued(queue')
                      => /\ acks = 1
                         /\ queue'.unfinished = queue.unfinished - 1 ]_vars

\* C29: a worker's tasks_failed grows only for a task whose attempts are
\* exhausted and which is in the queue's failed set.
C29_FailedCountOnlyWhenExhausted ==
    [][ \A w \in Workers :
          (wk[w].pc # "none" /\ wk'[w].tasks_failed > wk[w].tasks_failed)
          => /\ last'.task.attempts >= last'.task.max_attempts
             /\ last'.id \in queue'.failed_tasks ]_vars

\* C30: whatever the interleaving of concurrent calls of put, suspended
\* ones included, no two enqueued tasks have the same identity, and
\* total_added counts an identity once for each time it was enqueued while
\* not already pending.
C30_NoDuplicateEnqueued ==
    \A i, j \in DOMAIN queue.heap :
        generate_task_id(queue.heap[i].media_info)
            = generate_task_id(queue.heap[j].media_info) => i = j

\* C31: an identity is pending if and only if a task with that identity is
\* enqueued or is held by a worker.
C31_PendingIffLive ==
    queue.pending_tasks = Enqueued(queue) \cup InFlight

\* C32: when a download ends with success or skipped the worker's
\* completed count grows by one, the identity enters the completed set and
\* not the failed set, nothing is retried, and the worker's byte total
\* grows by the task's declared size on success and not at all on skipped.
C32_SuccessAndSkipped ==
    [][ \A w \in Workers :
          (last'.op = "task_done" /\ wk[w].pc = "download" /\ wk'[w].pc # "download")
          => LET task == wk[w].current_task
                 id == generate_task_id(task.media_info)
                 succeeded == dl'[id].downloaded - dl[id].downloaded
             IN  /\ wk'[w].tasks_completed = wk[w].tasks_completed + 1
                 /\ wk'[w].tasks_failed = wk[w].tasks_failed
                 /\ wk'[w].bytes_downloaded
                      = wk[w].bytes_downloaded + succeeded * task.media_info.file_size
                 /\ succeeded \in {0, 1}
                 /\ id \in queue'.completed_tasks
                 /\ id \notin queue'.failed_tasks
                 /\ queue'.failed_tasks = queue.failed_tasks
                 /\ queue'.total_completed = queue.total_completed + 1
                 /\ queue'.total_failed = queue.total_failed
                 /\ id \notin queue'.pending_tasks
                 /\ queue'.heap = queue.heap
                 /\ dl'[id].failures = dl[id].failures ]_vars

\* one worker has completed a skipped task and nothing else, and a task
\* downloaded with success has just been acknowledged
C32_Witness ==
    /\ last.op = "task_done"
    /\ dl[last.id].downloaded = 1
    /\ last.id \in queue.completed_tasks
    /\ \E w \in Workers : wk[w].tasks_completed = 1 /\ wk[w].bytes_downloaded = 0
    /\ \E w \in Workers : wk[w].tasks_completed = 1
                            /\ wk[w].bytes_downloaded = last.task.media_info.file_size

\* C33: the download operation is invoked only by a worker that dequeued
\* the task and was then granted one permit for it: for every identity the
\* number of invocations never exceeds the number of permits granted.
C33_PermitBeforeDownload ==
    [][ \A id \in TaskIds :
          /\ dl'[id].calls <= dl'[id].permits
          /\ dl'[id].calls > dl[id].calls
               => /\ \E w \in Workers :
                        /\ wk[w].pc = "acquire"
                        /\ wk[w].current_task # NoTask
                        /\ generate_task_id(wk[w].current_task.media_info) = id
                        /\ wk'[w].pc = "download"
                  /\ dl'[id].calls = dl[id].calls + 1
                  /\ dl'[id].permits = dl[id].permits + 1 ]_vars

\* a download was invoked under a permit, and a permit was granted for a
\* task whose download was never invoked
C33_Witness ==
    /\ last.op = "download"
    /\ last.ret = "invoked"
    /\ dl[last.id].calls = 1
    /\ \E id \in TaskIds : dl[id].permits = 1 /\ dl[id].calls = 0

C35_StableAmongEqual ==
    last.op = "get" =>
        \A i \in DOMAIN queue.heap :
            queue.heap[i].priority = last.task.priority
                => last.task.media_info.message_id
                     < queue.heap[i].media_info.message_id

Loops == { w \in Workers : wk[w].pc \in {"created", "get", "acquire", "download", "retry_put"} }

\* C36: while the coordinator is running exactly num_workers worker loops
\* exist, and in every state at most num_workers tasks are held by workers,
\* each by a worker whose loop exists.
C36_ExactlyNWorkers ==
    /\ coord.is_running => Cardinality(Loops) = num_workers
    /\ Cardinality({ w \in Workers : wk[w].current_task # NoTask }) <= num_workers
    /\ \A w \in Workers : wk[w].current_task # NoTask => w \in Loops
    /\ \A w \in Workers : wk[w].pc \in {"acquire", "download"} <=> wk[w].current_task # NoTask

\* the coordinator runs again after a stop has returned: the queue has
\* completed a task that no present worker completed, and a worker of the
\* new set is downloading
C36_Witness ==
    /\ coord.is_running
    /\ queue.total_completed >= 1
    /\ \A w \in Workers : wk[w].tasks_completed = 0
    /\ \E w \in Workers : wk[w].pc = "download"
    /\ Cardinality(Loops) = num_workers

MonitorOps == {"start_monitoring", "monitor_loop", "stop_monitoring", "display_summary"}

\* C37: no operation of the monitor changes the coordinator, the queue or
\* the workers, and stop_monitoring returns without an error.
C37_MonitorOnlyReads ==
    [][ last'.op \in MonitorOps
        => /\ UNCHANGED <<queue, putters, wk, coord>>
           /\ last'.op = "stop_monitoring" => last'.ret \in {"noop", "returned"} ]_vars

\* WorkerPool.get_stats: total_completed and total_failed over the workers S
RECURSIVE SumCompleted(_)
SumCompleted(S) ==
    IF S = {} THEN 0
    ELSE LET w == CHOOSE v \in S : TRUE
         IN  wk[w].tasks_completed + SumCompleted(S \ {w})

RECURSIVE SumFailed(_)
SumFailed(S) ==
    IF S = {} THEN 0
    ELSE LET w == CHOOSE v \in S : TRUE
         IN  wk[w].tasks_failed + SumFailed(S \ {w})

\* C38: while the coordinator is running and no worker holds a task, the
\* workers' completed counts add up to the queue's total_completed and
\* their failed counts to the queue's total_failed.
C38_AggregatesAgree ==
    (coord.is_running /\ \A w \in Workers : wk[w].current_task = NoTask)
        => /\ SumCompleted(Workers) = queue.total_completed
           /\ SumFailed(Workers) = queue.total_failed

\* the declared size of the payload with identity id
file_size_of(id) ==
    (CHOOSE mi \in MediaInfos \cup Unnamed : generate_task_id(mi) = id).file_size

\* the declared sizes of all downloads that ended with success
RECURSIVE DownloadedBytes(_, _)
DownloadedBytes(d, S) ==
    IF S = {} THEN 0
    ELSE LET id == CHOOSE v \in S : TRUE
         IN  d[id].downloaded * file_size_of(id) + DownloadedBytes(d, S \ {id})

\* C39: the total bytes get_session_summary reports is the sum of the
\* declared sizes of the tasks downloaded with success, and is never less
\* than the total reported before.
C39_BytesNeverDecrease ==
    [][ last'.op = "get_session_summary"
        => /\ coord'.total_bytes_downloaded >= coord.total_bytes_downloaded
           /\ coord'.total_bytes_downloaded = DownloadedBytes(dl', TaskIds) ]_vars

\* what get_progress_info reports for the queue as it is
reported_percentage(q) ==
    progress_percentage(q.total_added, Cardinality(q.completed_tasks),
                        Cardinality(q.failed_tasks))

\* C40: the progress_percentage reported by a running coordinator never
\* exceeds 100 and, once a task was added, is 100 exactly when no identity
\* is pending.
C40_HundredIffNothingPending ==
    coord.is_running =>
        /\ reported_percentage(queue) <= 1000
        /\ queue.total_added > 0 =>
              (reported_percentage(queue) = 1000 <=> queue.pending_tasks = {})

====
